---- MODULE Spec2Model ----
(***************************************************************************)
(* A model of autopost.py: the text helpers (ordinal, wrap_text), the      *)
(* XML-to-record parser, the post composer, the image renderer and main.   *)
(*                                                                         *)
(* Strings are sequences of one-character strings, so that splitting,      *)
(* parsing and formatting are computed and not assumed.  An optional value *)
(* (Python's None) is a sequence of length 0 or 1.                         *)
(***************************************************************************)
EXTENDS Integers, Sequences, FiniteSets

VARIABLES
    \* ---- ordinal(rank_str) ----
    rank_str,        \* the argument
    ord_out,         \* <<>> before the call, <<result>> after it
    \* ---- wrap_text(draw, text, font, max_width) ----
    w_text, w_font, w_max,
    w_out,           \* <<>> before the call, <<lines>> after it
    \* ---- parse_meeting_file(path, target_date), build_posts_for_meeting ----
    c_doc,           \* the XML document at path
    c_pc,            \* "start", "raised", "parsed", "built"
    c_meeting,       \* what parse_meeting_file returned: <<>> is None
    c_posts,         \* what build_posts_for_meeting returned
    \* ---- render_post_image(title, sections, out_path) ----
    r_title, r_sections,   \* the arguments
    r_logo,          \* the size of the image at LOGO_PATH, <<>> if it cannot be loaded
    r_fonts_ok,      \* whether the TrueType font files can be loaded
    r_pc,            \* position in the function
    r_cand,          \* index of the font-size candidate being tried
    r_best,          \* best_fonts: <<>> is None
    r_fonts,         \* (title_font, section_font, body_font) used to draw
    r_y,             \* title_y, then y
    r_lines,         \* the wrapped lines still to draw in the current loop
    r_si, r_li,      \* index of the current section and of its current body text
    r_draws,         \* the draw.text calls made: role and y
    r_breaks,        \* the truncation breaks taken
    \* ---- main() ----
    m_listing,       \* ftp.nlst(): the names on the server
    m_failing,       \* the names whose RETR raises
    m_pc,            \* position in main
    m_xml_names,     \* what list_xml_files_for_date returned
    m_i,             \* index of the loop over xml_names, then over xml_paths
    m_paths,         \* downloaded_paths / xml_paths
    m_meetings,      \* the dict meetings, in insertion order: [key, meeting]
    m_k, m_idx,      \* index of the meeting and of its post being rendered
    m_image_paths,   \* image_paths
    m_rendered,      \* the out_path of each render_post_image call that returned
    m_sent           \* the attachment lists of the send_email calls made

vars == <<rank_str, ord_out, w_text, w_font, w_max, w_out,
          c_doc, c_pc, c_meeting, c_posts,
          r_title, r_sections, r_logo, r_fonts_ok, r_pc, r_cand, r_best, r_fonts,
          r_y, r_lines, r_si, r_li, r_draws, r_breaks,
          m_listing, m_failing, m_pc, m_xml_names, m_i, m_paths, m_meetings,
          m_k, m_idx, m_image_paths, m_rendered, m_sent>>

ordVars  == <<rank_str, ord_out>>
wrapVars == <<w_text, w_font, w_max, w_out>>
compVars == <<c_doc, c_pc, c_meeting, c_posts>>
rendVars == <<r_title, r_sections, r_logo, r_fonts_ok, r_pc, r_cand, r_best, r_fonts,
              r_y, r_lines, r_si, r_li, r_draws, r_breaks>>
mainVars == <<m_listing, m_failing, m_pc, m_xml_names, m_i, m_paths, m_meetings,
              m_k, m_idx, m_image_paths, m_rendered, m_sent>>

\* ------------------------------------------------------- program constants
IMG_W == 1080
IMG_H == 1080
MARGIN_X == 80
MARGIN_TOP == 80
MARGIN_BOTTOM == 80

\* ------------------------------------------------------------------ bounds
MaxRankLen == 3          \* rank strings of up to this many characters
MaxWrapLen == 6          \* texts of up to this many characters for wrap_text
MaxStats   == 6          \* Statistic elements of one TopXStatistic node
MaxWon     == 6          \* Runner elements of the WonOffHigherHandicap node
MaxTitleWords == 21      \* words of the longest title rendered
MaxBodyLines  == 12      \* body lines of the longest section rendered
MaxFiles      == 3       \* names in the FTP listing
MaxFailing    == 1       \* names whose download fails

\* ----------------------------------------------------------- string helpers
Digits == <<"0", "1", "2", "3", "4", "5", "6", "7", "8", "9">>

IsDigit(c) == \E d \in 1..10 : Digits[d] = c

DigitVal(c) == (CHOOSE d \in 1..10 : Digits[d] = c) - 1

\* str.isspace() for the characters of the model
IsSpace(c) == c \in {" ", "\t"}

\* str.strip()
Strip(s) ==
    LET keep == {i \in 1..Len(s) : ~IsSpace(s[i])}
    IN  IF keep = {} THEN <<>>
        ELSE LET lo == CHOOSE i \in keep : \A j \in keep : i <= j
                 hi == CHOOSE i \in keep : \A j \in keep : j <= i
             IN  SubSeq(s, lo, hi)

RECURSIVE DigitsVal(_)
DigitsVal(s) ==
    IF s = <<>> THEN 0
    ELSE 10 * DigitsVal(SubSeq(s, 1, Len(s) - 1)) + DigitVal(s[Len(s)])

\* int(s): <<n>> when s is optional whitespace, an optional sign and then
\* one or more decimal digits; <<>> when int(s) raises ValueError.
ParseInt(s) ==
    LET t    == Strip(s)
        sgn  == t # <<>> /\ t[1] \in {"+", "-"}
        body == IF sgn THEN Tail(t) ELSE t
    IN  IF body # <<>> /\ \A i \in 1..Len(body) : IsDigit(body[i])
        THEN IF sgn /\ t[1] = "-" THEN <<0 - DigitsVal(body)>>
                                  ELSE <<DigitsVal(body)>>
        ELSE <<>>

RECURSIVE NatToStr(_)
NatToStr(n) ==
    IF n < 10 THEN <<Digits[n + 1]>>
    ELSE NatToStr(n \div 10) \o <<Digits[(n % 10) + 1]>>

\* str(n) / f"{n}" for an int
IntToStr(n) == IF n < 0 THEN <<"-">> \o NatToStr(0 - n) ELSE NatToStr(n)

\* ----------------------------------------------------------------- ordinal
\* A version of the suffix choice that tests the teens as 11..13 of n % 10.
ordinal_suffix_no_teens(n) ==
    IF n % 10 = 1 THEN <<"s", "t">>
    ELSE IF n % 10 = 2 THEN <<"n", "d">>
    ELSE IF n % 10 = 3 THEN <<"r", "d">>
    ELSE <<"t", "h">>

ordinal_suffix(n) ==
    IF 10 <= n % 100 /\ n % 100 <= 20 THEN <<"t", "h">>
    ELSE IF n % 10 = 1 THEN <<"s", "t">>
    ELSE IF n % 10 = 2 THEN <<"n", "d">>
    ELSE IF n % 10 = 3 THEN <<"r", "d">>
    ELSE <<"t", "h">>

ordinal(s) ==
    LET p == ParseInt(s)
    IN  IF p = <<>> THEN s
        ELSE IntToStr(p[1]) \o ordinal_suffix(p[1])

\* ------------------------------------------------------------ font metrics
\* load_font(candidates, size): a scalable font of the requested size when one
\* of the candidate files loads, the fixed built-in bitmap font otherwise.
load_font(size, fonts_installed) == [size |-> size, truetype |-> fonts_installed]

\* font.getbbox("Ag")[3]: the line height.  Pillow's metrics are abstracted:
\* 9/8 of the pixel size for a scalable font, 11 for the built-in font.
LineH(font) == IF font.truetype THEN (font.size * 9) \div 8 ELSE 11

\* The advance of one character: 5/8 of the pixel size for a scalable font,
\* 6 for the built-in font (the fonts are treated as fixed-pitch).
CharW(font) == IF font.truetype THEN (font.size * 5) \div 8 ELSE 6

\* text_width(draw, text, font)
text_width(text, font) ==
    IF text = <<>> THEN 0 ELSE Len(text) * CharW(font)

\* ---------------------------------------------------------------- wrap_text
\* str.split(): the maximal runs of non-whitespace characters, in order.
split(text) ==
    LET n       == Len(text)
        starts  == {i \in 1..n : ~IsSpace(text[i]) /\ (i = 1 \/ IsSpace(text[i - 1]))}
        ends    == {i \in 1..n : ~IsSpace(text[i]) /\ (i = n \/ IsSpace(text[i + 1]))}
        nth(S, k) == CHOOSE i \in S : Cardinality({j \in S : j < i}) = k - 1
    IN  [k \in 1..Cardinality(starts) |-> SubSeq(text, nth(starts, k), nth(ends, k))]

\* The loop of wrap_text over words[i..], with the line being filled and the
\* lines closed so far.
RECURSIVE wrap_loop(_, _, _, _, _, _)
wrap_loop(words, i, current, lines, font, max_width) ==
    IF i > Len(words) THEN Append(lines, current)
    ELSE LET test == current \o <<" ">> \o words[i]
         IN  IF text_width(test, font) <= max_width
             THEN wrap_loop(words, i + 1, test, lines, font, max_width)
             ELSE wrap_loop(words, i + 1, words[i], Append(lines, current),
                            font, max_width)

\* wrap_text with the last line never appended (the line after the loop lost).
wrap_text_drops_last(text, font, max_width) ==
    LET words == split(text)
    IN  IF words = <<>> THEN << <<>> >>
        ELSE LET all == wrap_loop(words, 2, words[1], <<>>, font, max_width)
             IN  SubSeq(all, 1, Len(all) - 1)

wrap_text(text, font, max_width) ==
    LET words == split(text)
    IN  IF words = <<>> THEN << <<>> >>
        ELSE wrap_loop(words, 2, words[1], <<>>, font, max_width)

\* ------------------------------------------------------------- load_logo
\* The height of the logo load_logo returns for an image of size (w, h);
\* 0 when there is no logo (the file is missing or cannot be opened).
\* int(x * scale) is taken as the floor of the exact quotient.
load_logo_height(logo) ==
    IF logo = <<>> THEN 0
    ELSE LET w == logo[1].w
             h == logo[1].h
             target_h == (IMG_H * 15) \div 100
             max_w    == (IMG_W * 25) \div 100
         IN  IF h = 0 \/ w = 0 THEN h
             ELSE IF (w * target_h) \div h > max_w
                  THEN (h * max_w) \div w
                  ELSE target_h

\* ------------------------------------------------ calculate_content_height
RECURSIVE body_height(_, _, _, _)
body_height(lines, i, body_font, max_text_width) ==
    IF i > Len(lines) THEN 0
    ELSE Len(wrap_text(lines[i], body_font, max_text_width)) * (LineH(body_font) + 6)
         + body_height(lines, i + 1, body_font, max_text_width)

RECURSIVE sections_height(_, _, _, _, _)
sections_height(sections, i, section_font, body_font, max_text_width) ==
    IF i > Len(sections) THEN 0
    ELSE Len(wrap_text(sections[i].heading, section_font, max_text_width))
             * (LineH(section_font) + 6) + 6
         + body_height(sections[i].lines, 1, body_font, max_text_width)
         + 12
         + sections_height(sections, i + 1, section_font, body_font, max_text_width)

\* the top of the title: MARGIN_TOP + (logo_height + 30 if logo_height else 0)
title_top(logo_height) ==
    MARGIN_TOP + (IF logo_height # 0 THEN logo_height + 30 ELSE 0)

\* the measurement without the 6 pixels that follow a heading
calculate_content_height_no_heading_gap(title, sections, title_font, section_font, body_font, max_width, logo_height) ==
    title_top(logo_height)
    + Len(wrap_text(title, title_font, max_width)) * (LineH(title_font) + 8) + 10
    + sections_height(sections, 1, section_font, body_font, max_width)
    - 6 * Len(sections)

calculate_content_height(title, sections, title_font, section_font, body_font, max_width, logo_height) ==
    title_top(logo_height)
    + Len(wrap_text(title, title_font, max_width)) * (LineH(title_font) + 8) + 10
    + sections_height(sections, 1, section_font, body_font, max_width)

\* -------------------------------------------------------- render_post_image
title_sizes   == <<56, 48, 42, 36>>
section_sizes == <<40, 36, 32, 28>>
body_sizes    == <<32, 28, 26, 24>>

max_text_width == IMG_W - 2 * MARGIN_X

\* the fonts loaded for candidate i of zip(title_sizes, section_sizes, body_sizes)
fonts_at(i, fonts_ok) ==
    [title   |-> load_font(title_sizes[i], fonts_ok),
     section |-> load_font(section_sizes[i], fonts_ok),
     body    |-> load_font(body_sizes[i], fonts_ok)]

\* a fit test that forgets the bottom margin
fits_canvas(content_height) == content_height <= IMG_H

\* "if content_height <= IMG_H - MARGIN_BOTTOM"
fits(content_height) == content_height <= IMG_H - MARGIN_BOTTOM

content_height_at(i) ==
    LET f == fonts_at(i, r_fonts_ok)
    IN  calculate_content_height(r_title, r_sections, f.title, f.section, f.body,
                                 max_text_width, load_logo_height(r_logo))

rendRest == <<r_title, r_sections, r_logo, r_fonts_ok>>

\* the candidate fits: best_fonts is set and the loop is left
FitAccept ==
    /\ r_pc = "fit"
    /\ fits(content_height_at(r_cand))
    /\ r_best' = <<fonts_at(r_cand, r_fonts_ok)>>
    /\ r_pc' = "fitted"
    /\ UNCHANGED <<rendRest, r_cand, r_fonts, r_y, r_lines, r_si, r_li, r_draws, r_breaks>>

\* the candidate does not fit: on to the next, or out of the loop after the last
FitReject ==
    /\ r_pc = "fit"
    /\ ~fits(content_height_at(r_cand))
    /\ IF r_cand < Len(title_sizes)
       THEN r_cand' = r_cand + 1 /\ r_pc' = "fit"
       ELSE r_cand' = r_cand /\ r_pc' = "fitted"
    /\ UNCHANGED <<rendRest, r_best, r_fonts, r_y, r_lines, r_si, r_li, r_draws, r_breaks>>

\* "if best_fonts is None": the smallest sizes
Fallback ==
    /\ r_pc = "fitted"
    /\ r_best = <<>>
    /\ r_best' = <<fonts_at(Len(title_sizes), r_fonts_ok)>>
    /\ UNCHANGED <<rendRest, r_pc, r_cand, r_fonts, r_y, r_lines, r_si, r_li, r_draws,
                   r_breaks>>

\* title_font, section_font, body_font = best_fonts; the title is wrapped
StartTitle ==
    /\ r_pc = "fitted"
    /\ r_best # <<>>
    /\ r_fonts' = r_best[1]
    /\ r_y' = title_top(load_logo_height(r_logo))
    /\ r_lines' = wrap_text(r_title, r_best[1].title, max_text_width)
    /\ r_pc' = "title"
    /\ UNCHANGED <<rendRest, r_cand, r_best, r_si, r_li, r_draws, r_breaks>>

\* one title line is drawn (no test of title_y)
DrawTitleLine ==
    /\ r_pc = "title"
    /\ r_lines # <<>>
    /\ r_draws' = Append(r_draws, [role |-> "title", y |-> r_y])
    /\ r_y' = r_y + LineH(r_fonts.title) + 8
    /\ r_lines' = Tail(r_lines)
    /\ UNCHANGED <<rendRest, r_pc, r_cand, r_best, r_fonts, r_si, r_li, r_breaks>>

\* y = title_y + 10, and the loop over the sections starts
TitleDone ==
    /\ r_pc = "title"
    /\ r_lines = <<>>
    /\ r_y' = r_y + 10
    /\ r_si' = 1
    /\ r_pc' = "section"
    /\ UNCHANGED <<rendRest, r_cand, r_best, r_fonts, r_lines, r_li, r_draws, r_breaks>>

\* the next section: its heading is wrapped
SectionStart ==
    /\ r_pc = "section"
    /\ r_si <= Len(r_sections)
    /\ r_lines' = wrap_text(r_sections[r_si].heading, r_fonts.section, max_text_width)
    /\ r_pc' = "heading"
    /\ UNCHANGED <<rendRest, r_cand, r_best, r_fonts, r_y, r_si, r_li, r_draws, r_breaks>>

\* the sections are exhausted: the image is saved
SectionsDone ==
    /\ r_pc = "section"
    /\ r_si > Len(r_sections)
    /\ r_pc' = "done"
    /\ UNCHANGED <<rendRest, r_cand, r_best, r_fonts, r_y, r_lines, r_si, r_li, r_draws,
                   r_breaks>>

DrawHeadingLine ==
    /\ r_pc = "heading"
    /\ r_lines # <<>>
    /\ ~(r_y > IMG_H - MARGIN_BOTTOM)
    /\ r_draws' = Append(r_draws, [role |-> "heading", y |-> r_y])
    /\ r_y' = r_y + LineH(r_fonts.section) + 6
    /\ r_lines' = Tail(r_lines)
    /\ UNCHANGED <<rendRest, r_pc, r_cand, r_best, r_fonts, r_si, r_li, r_breaks>>

\* the heading loop ends, by exhaustion or by its break; y += 6
HeadingDone ==
    /\ r_pc = "heading"
    /\ r_lines = <<>> \/ r_y > IMG_H - MARGIN_BOTTOM
    /\ r_breaks' = IF r_lines # <<>> THEN r_breaks \cup {"heading"} ELSE r_breaks
    /\ r_y' = r_y + 6
    /\ r_li' = 1
    /\ r_lines' = <<>>
    /\ r_pc' = "text"
    /\ UNCHANGED <<rendRest, r_cand, r_best, r_fonts, r_si, r_draws>>

\* the next body text of the section is wrapped
TextStart ==
    /\ r_pc = "text"
    /\ r_li <= Len(r_sections[r_si].lines)
    /\ r_lines' = wrap_text(r_sections[r_si].lines[r_li], r_fonts.body, max_text_width)
    /\ r_pc' = "body"
    /\ UNCHANGED <<rendRest, r_cand, r_best, r_fonts, r_y, r_si, r_li, r_draws, r_breaks>>

DrawBodyLine ==
    /\ r_pc = "body"
    /\ r_lines # <<>>
    /\ ~(r_y > IMG_H - MARGIN_BOTTOM - LineH(r_fonts.body))
    /\ r_draws' = Append(r_draws, [role |-> "body", y |-> r_y])
    /\ r_y' = r_y + LineH(r_fonts.body) + 6
    /\ r_lines' = Tail(r_lines)
    /\ UNCHANGED <<rendRest, r_pc, r_cand, r_best, r_fonts, r_si, r_li, r_breaks>>

\* the inner loop ends without break: continue with the next text
TextDone ==
    /\ r_pc = "body"
    /\ r_lines = <<>>
    /\ r_li' = r_li + 1
    /\ r_pc' = "text"
    /\ UNCHANGED <<rendRest, r_cand, r_best, r_fonts, r_y, r_lines, r_si, r_draws, r_breaks>>

\* the end of a section's body, reached by exhaustion of its texts or by the
\* break of the inner loop (which also breaks the loop over the texts):
\* y += 12, then the loop over the sections is left if y is past the margin
SectionEnd ==
    /\ \/ r_pc = "text" /\ r_li > Len(r_sections[r_si].lines)
       \/ r_pc = "body" /\ r_lines # <<>>
                        /\ r_y > IMG_H - MARGIN_BOTTOM - LineH(r_fonts.body)
    /\ r_y' = r_y + 12
    /\ r_lines' = <<>>
    /\ IF r_y + 12 > IMG_H - MARGIN_BOTTOM
       THEN /\ r_pc' = "done"
            /\ r_si' = r_si
            /\ r_breaks' = (IF r_pc = "body" THEN r_breaks \cup {"body"} ELSE r_breaks)
                           \cup {"section"}
       ELSE /\ r_pc' = "section"
            /\ r_si' = r_si + 1
            /\ r_breaks' = IF r_pc = "body" THEN r_breaks \cup {"body"} ELSE r_breaks
    /\ UNCHANGED <<rendRest, r_cand, r_best, r_fonts, r_li, r_draws>>

NextRender ==
    /\ \/ FitAccept \/ FitReject \/ Fallback \/ StartTitle
       \/ DrawTitleLine \/ TitleDone
       \/ SectionStart \/ SectionsDone
       \/ DrawHeadingLine \/ HeadingDone
       \/ TextStart \/ DrawBodyLine \/ TextDone \/ SectionEnd
    /\ UNCHANGED <<ordVars, wrapVars, compVars, mainVars>>

\* ------------------------------------------------------- parse_meeting_file
\* str.split(sep) for a one-character separator
SplitOn(s, sep) ==
    LET seps   == {i \in 1..Len(s) : s[i] = sep}
        n      == Cardinality(seps)
        pos(k) == IF k = 0 THEN 0
                  ELSE IF k = n + 1 THEN Len(s) + 1
                  ELSE CHOOSE i \in seps : Cardinality({j \in seps : j < i}) = k - 1
    IN  [k \in 1..(n + 1) |-> SubSeq(s, pos(k - 1) + 1, pos(k) - 1)]

DaysInMonth(year, month) ==
    IF month = 2
    THEN IF year % 4 = 0 /\ (year % 100 # 0 \/ year % 400 = 0) THEN 29 ELSE 28
    ELSE IF month \in {4, 6, 9, 11} THEN 30 ELSE 31

\* day, month, year = map(int, date_str.split("/")); datetime.date(year, month, day)
\* <<>> when any of it raises.
parse_date(date_str) ==
    LET parts == SplitOn(date_str, "/")
    IN  IF Len(parts) # 3 THEN <<>>
        ELSE LET d == ParseInt(parts[1])
                 m == ParseInt(parts[2])
                 y == ParseInt(parts[3])
             IN  IF d = <<>> \/ m = <<>> \/ y = <<>> THEN <<>>
                 ELSE IF /\ y[1] \in 1..9999
                         /\ m[1] \in 1..12
                         /\ d[1] \in 1..DaysInMonth(y[1], m[1])
                      THEN <<[year |-> y[1], month |-> m[1], day |-> d[1]]>>
                      ELSE <<>>

\* seq[:5]
First5(seq) == SubSeq(seq, 1, IF Len(seq) < 5 THEN Len(seq) ELSE 5)

\* get_top_list keeping every Statistic of the node (the slice forgotten)
get_top_list_unsliced(topx, stat_type) ==
    LET idx == {i \in 1..Len(topx) : topx[i].statisticType = stat_type}
    IN  IF idx = {} THEN <<>>
        ELSE topx[CHOOSE i \in idx : \A j \in idx : i <= j].statistics

\* get_top_list(stat_type): the first five Statistic elements, in document
\* order, of the first TopXStatistic node of that type.  A Statistic is the
\* record of its attributes, an absent attribute being the empty string.
get_top_list(topx, stat_type) ==
    LET idx == {i \in 1..Len(topx) : topx[i].statisticType = stat_type}
    IN  IF idx = {} THEN <<>>
        ELSE First5(topx[CHOOSE i \in idx : \A j \in idx : i <= j].statistics)

\* Python truthiness of an attribute value that may be None
Truthy(opt) == opt # <<>> /\ opt[1] # <<>>

\* the diff of a Runner with the sign of the difference not tested
won_diff_unsigned(weight) ==
    LET weight_then == IF weight # <<>> THEN weight[1].weightThen ELSE << <<>> >>
        weight_now  == IF weight # <<>> THEN weight[1].weightNow ELSE << <<>> >>
    IN  IF Truthy(weight_then) /\ Truthy(weight_now)
        THEN LET a == ParseInt(weight_then[1])
                 b == ParseInt(weight_now[1])
             IN  IF a = <<>> \/ b = <<>> THEN <<>>
                 ELSE IntToStr(a[1] - b[1])
        ELSE <<>>

\* The diff of a Runner of WonOffHigherHandicap: weight is its Weight child
\* (<<>> when there is none), whose attributes may be absent (<<>>).
\* An int() that raises is caught and leaves diff empty.
won_diff(weight) ==
    LET weight_then == IF weight # <<>> THEN weight[1].weightThen ELSE << <<>> >>
        weight_now  == IF weight # <<>> THEN weight[1].weightNow ELSE << <<>> >>
    IN  IF Truthy(weight_then) /\ Truthy(weight_now)
        THEN LET a == ParseInt(weight_then[1])
                 b == ParseInt(weight_now[1])
             IN  IF a = <<>> \/ b = <<>> THEN <<>>
                 ELSE IF a[1] - b[1] > 0 THEN IntToStr(a[1] - b[1]) ELSE <<>>
        ELSE <<>>

drop_runners_of(stats) ==
    IF stats.drop = <<>> THEN <<>>
    ELSE [i \in 1..Len(stats.drop[1]) |->
              [name |-> stats.drop[1][i].name, raceTime |-> stats.drop[1][i].raceTime]]

won_runners_of(stats) ==
    IF stats.won = <<>> THEN <<>>
    ELSE LET rs == First5(stats.won[1])
         IN  [i \in 1..Len(rs) |->
                  [name |-> rs[i].name, raceTime |-> rs[i].raceTime,
                   diff |-> won_diff(rs[i].weight)]]

\* parse_meeting_file(path, target_date) on the document at path:
\* [raised |-> TRUE] when ET.parse raises, otherwise the returned value,
\* <<>> for None and <<meeting>> for a record.
parse_meeting_file(doc, target_date) ==
    IF ~doc.wellformed THEN [raised |-> TRUE, value |-> <<>>]
    ELSE IF doc.meeting = <<>> THEN [raised |-> FALSE, value |-> <<>>]
    ELSE LET meeting == doc.meeting[1]
             none    == [raised |-> FALSE, value |-> <<>>]
         IN  IF ~Truthy(meeting.date) THEN none
             ELSE LET meet_date == parse_date(meeting.date[1])
                  IN  IF meet_date = <<>> THEN none
                      ELSE IF meet_date[1] # target_date THEN none
                      ELSE IF meeting.stats = <<>> THEN none
                      ELSE IF meeting.stats[1].topx = <<>> THEN none
                      ELSE LET stats == meeting.stats[1]
                               topx  == stats.topx[1]
                               ttt   == get_top_list(topx, "TopTrackTrainers")
                               ttj   == get_top_list(topx, "TopTrackJockeys")
                               ht    == get_top_list(topx, "HotTrainers")
                               hj    == get_top_list(topx, "HotJockeys")
                               drop  == drop_runners_of(stats)
                               won   == won_runners_of(stats)
                           IN  IF ttt = <<>> /\ ttj = <<>> /\ ht = <<>> /\ hj = <<>>
                                  /\ drop = <<>> /\ won = <<>>
                               THEN none
                               ELSE [raised |-> FALSE,
                                     value |-> <<[meeting_name |-> Strip(meeting.name),
                                                  tla |-> IF meeting.course = <<>>
                                                          THEN <<"">>
                                                          ELSE meeting.course[1].tla,
                                                  date |-> meet_date[1],
                                                  top_track_trainers |-> ttt,
                                                  top_track_jockeys |-> ttj,
                                                  hot_trainers |-> ht,
                                                  hot_jockeys |-> hj,
                                                  drop_runners |-> drop,
                                                  won_runners |-> won]>>]

\* -------------------------------------------------- build_posts_for_meeting
\* A body line is the record of the fields its f-string interpolates.
trainer_line(item) ==
    [kind |-> "stat", rank |-> ordinal(item.rank), name |-> item.name,
     sr |-> item.strikeRate, wins |-> item.wins, runs |-> item.runs,
     unit |-> "runners"]

jockey_line(item) ==
    [kind |-> "stat", rank |-> ordinal(item.rank), name |-> item.name,
     sr |-> item.strikeRate, wins |-> item.wins, runs |-> item.runs,
     unit |-> "rides"]

drop_line(r) ==
    IF r.raceTime # "" THEN [kind |-> "drop", name |-> r.name, time |-> r.raceTime]
    ELSE [kind |-> "name", name |-> r.name]

won_line(r) ==
    IF r.diff # <<>>
    THEN [kind |-> "won_higher_mark", name |-> r.name, diff |-> r.diff, time |-> r.raceTime]
    ELSE [kind |-> "won", name |-> r.name, time |-> r.raceTime]

\* a section appended whether or not its category has rows
section_always(rows, heading, lines) ==
    <<[heading |-> heading, lines |-> lines]>>

\* "if rows: sections.append({heading, lines})": the sections it adds
section_if(rows, heading, lines) ==
    IF rows # <<>> THEN <<[heading |-> heading, lines |-> lines]>> ELSE <<>>

\* "if sections: posts.append({title, sections})"
post_if(title, sections) ==
    IF sections # <<>> THEN <<[title |-> title, sections |-> sections]>> ELSE <<>>

build_posts_for_meeting(meeting) ==
    LET map(f(_), rows) == [i \in 1..Len(rows) |-> f(rows[i])]
        sections1 ==
            section_if(meeting.top_track_trainers, "Top Track Trainers - Last 5 Years",
                       map(trainer_line, meeting.top_track_trainers))
            \o section_if(meeting.top_track_jockeys, "Top Track Jockeys - Last 5 Years",
                          map(jockey_line, meeting.top_track_jockeys))
        sections2 ==
            section_if(meeting.hot_trainers, "Hot Trainers (Last Month)",
                       map(trainer_line, meeting.hot_trainers))
            \o section_if(meeting.hot_jockeys, "Hot Jockeys (Last Month)",
                          map(jockey_line, meeting.hot_jockeys))
        sections3 ==
            section_if(meeting.drop_runners, "Horses Dropping in Class",
                       map(drop_line, meeting.drop_runners))
            \o section_if(meeting.won_runners, "Well Handicapped Horses",
                          map(won_line, meeting.won_runners))
    IN  post_if(meeting.meeting_name, sections1)
        \o post_if(meeting.meeting_name, sections2)
        \o post_if(meeting.meeting_name, sections3)

\* ------------------------------------------------- list_xml_files_for_date
UpperCase == <<"A", "B", "C", "D", "E", "F", "G", "H", "I", "J", "K", "L", "M",
               "N", "O", "P", "Q", "R", "S", "T", "U", "V", "W", "X", "Y", "Z">>
LowerCase == <<"a", "b", "c", "d", "e", "f", "g", "h", "i", "j", "k", "l", "m",
               "n", "o", "p", "q", "r", "s", "t", "u", "v", "w", "x", "y", "z">>

\* str.lower()
Lower(s) ==
    [i \in 1..Len(s) |->
        IF \E u \in 1..26 : UpperCase[u] = s[i]
        THEN LowerCase[CHOOSE u \in 1..26 : UpperCase[u] = s[i]]
        ELSE s[i]]

\* str.endswith / str.startswith
EndsWith(s, suffix) ==
    Len(s) >= Len(suffix) /\ SubSeq(s, Len(s) - Len(suffix) + 1, Len(s)) = suffix

StartsWith(s, prefix) ==
    Len(s) >= Len(prefix) /\ SubSeq(s, 1, Len(prefix)) = prefix

\* two decimal digits, zero-padded (%d, %m)
TwoDigits(n) == <<Digits[(n \div 10) + 1], Digits[(n % 10) + 1]>>

\* target_date.strftime("%d%m")
ddmm_of(date) == TwoDigits(date.day) \o TwoDigits(date.month)

prefix_rank(name) ==
    IF StartsWith(name, <<"5", "-">>) THEN 0
    ELSE IF StartsWith(name, <<"1", "0", "-">>) THEN 1
    ELSE IF StartsWith(name, <<"2", "0", "-">>) THEN 2
    ELSE 3

\* list.sort(key=prefix_rank): a stable sort on a key of four values
sort_by_prefix_rank(names) ==
    SelectSeq(names, LAMBDA n : prefix_rank(n) = 0)
    \o SelectSeq(names, LAMBDA n : prefix_rank(n) = 1)
    \o SelectSeq(names, LAMBDA n : prefix_rank(n) = 2)
    \o SelectSeq(names, LAMBDA n : prefix_rank(n) = 3)

list_xml_files_for_date(names, target_date) ==
    LET xml_names == SelectSeq(names, LAMBDA n : EndsWith(Lower(n), <<".", "x", "m", "l">>))
        ddmm      == ddmm_of(target_date)
        filtered  == SelectSeq(xml_names,
                         LAMBDA n : Len(n) >= 8 /\ SubSeq(n, Len(n) - 7, Len(n) - 4) = ddmm)
    IN  IF xml_names = <<>> THEN <<>>
        ELSE sort_by_prefix_rank(IF filtered = <<>> THEN xml_names ELSE filtered)

\* --------------------------------------------------------------------- main
\* key = f"{meeting['tla']}_{meeting['date'].isoformat()}"
key_of(meeting) ==
    <<IF meeting.tla = <<>> THEN <<"N", "o", "n", "e">> ELSE meeting.tla[1], meeting.date>>

has_key(meetings, key) == \E j \in 1..Len(meetings) : meetings[j].key = key

\* a meeting stored under its key whether or not the key is there already
keep_last(meetings, key, meeting) ==
    IF has_key(meetings, key)
    THEN [j \in 1..Len(meetings) |->
             IF meetings[j].key = key THEN [key |-> key, meeting |-> meeting]
             ELSE meetings[j]]
    ELSE Append(meetings, [key |-> key, meeting |-> meeting])

\* "if key not in meetings: meetings[key] = meeting"
keep_first(meetings, key, meeting) ==
    IF has_key(meetings, key) THEN meetings
    ELSE Append(meetings, [key |-> key, meeting |-> meeting])

\* os.path.join(XML_DIR, name) and os.path.join(OUT_DIR, filename) with
\* filename = f"{meeting['tla']}_{target_date.strftime('%d%m')}_post{idx}.png"
local_path(name) == [dir |-> "xml_downloads", name |-> name]

\* the file name without the index of the post
out_path_without_idx(meeting, target_date, idx) ==
    [dir |-> "output",
     name |-> key_of(meeting)[1] \o <<"_">> \o ddmm_of(target_date)
              \o <<"_", "p", "o", "s", "t">> \o <<".", "p", "n", "g">>]

out_path(meeting, target_date, idx) ==
    [dir |-> "output",
     name |-> key_of(meeting)[1] \o <<"_">> \o ddmm_of(target_date)
              \o <<"_", "p", "o", "s", "t">> \o IntToStr(idx)
              \o <<".", "p", "n", "g">>]

\* ------------------------------------------------- specification: ordinal
RankChars == {"0", "1", "2", "3", "4", "5", "6", "7", "8", "9", "-", " ", "x"}

RankStrings == UNION {[1..n -> RankChars] : n \in 0..MaxRankLen}

IdleOrdinal == rank_str = <<>> /\ ord_out = <<>>
IdleCompose == c_doc = <<>> /\ c_pc = "idle" /\ c_meeting = <<>> /\ c_posts = <<>>
IdleMain ==
    /\ m_listing = <<>> /\ m_failing = {} /\ m_pc = "idle" /\ m_xml_names = <<>>
    /\ m_i = 0 /\ m_paths = <<>> /\ m_meetings = <<>> /\ m_k = 0 /\ m_idx = 0
    /\ m_image_paths = <<>> /\ m_rendered = <<>> /\ m_sent = <<>>
IdleRender ==
    /\ r_title = <<>> /\ r_sections = <<>> /\ r_logo = <<>> /\ r_fonts_ok = FALSE
    /\ r_pc = "idle" /\ r_cand = 0 /\ r_best = <<>> /\ r_fonts = <<>>
    /\ r_y = 0 /\ r_lines = <<>> /\ r_si = 0 /\ r_li = 0
    /\ r_draws = <<>> /\ r_breaks = {}
IdleWrap    == w_text = <<>> /\ w_font = [size |-> 0, truetype |-> FALSE]
               /\ w_max = 0 /\ w_out = <<>>

InitOrdinal ==
    /\ rank_str \in RankStrings
    /\ ord_out = <<>>
    /\ IdleWrap
    /\ IdleCompose
    /\ IdleRender
    /\ IdleMain

CallOrdinal ==
    /\ ord_out = <<>>
    /\ ord_out' = <<ordinal(rank_str)>>
    /\ UNCHANGED <<rank_str, wrapVars, compVars, rendVars, mainVars>>

NextOrdinal == CallOrdinal

SpecOrdinal == InitOrdinal /\ [][NextOrdinal]_vars

\* C6: for a rank string that parses as a non-negative integer n, ordinal
\* returns the decimal digits of n followed by "th" when n % 100 is in 10..20
\* and otherwise by "st", "nd", "rd" for a last digit of 1, 2, 3 and "th" for
\* any other; a rank string that does not parse is returned unchanged.
C6_Suffix(n) ==
    IF (n % 100) \in 10..20 THEN <<"t", "h">>
    ELSE CASE n % 10 = 1 -> <<"s", "t">>
           [] n % 10 = 2 -> <<"n", "d">>
           [] n % 10 = 3 -> <<"r", "d">>
           [] OTHER      -> <<"t", "h">>

C6_Examples ==
    /\ rank_str = <<"1">> => ord_out[1] = <<"1", "s", "t">>
    /\ rank_str = <<"2">> => ord_out[1] = <<"2", "n", "d">>
    /\ rank_str = <<"3">> => ord_out[1] = <<"3", "r", "d">>
    /\ rank_str = <<"4">> => ord_out[1] = <<"4", "t", "h">>
    /\ rank_str = <<"1", "1">> => ord_out[1] = <<"1", "1", "t", "h">>
    /\ rank_str = <<"1", "2">> => ord_out[1] = <<"1", "2", "t", "h">>
    /\ rank_str = <<"1", "3">> => ord_out[1] = <<"1", "3", "t", "h">>
    /\ rank_str = <<"2", "1">> => ord_out[1] = <<"2", "1", "s", "t">>
    /\ rank_str = <<"1", "0", "1">> => ord_out[1] = <<"1", "0", "1", "s", "t">>
    /\ rank_str = <<"1", "1", "1">> => ord_out[1] = <<"1", "1", "1", "t", "h">>

C6_OrdinalRule ==
    ord_out # <<>> =>
        LET p == ParseInt(rank_str)
        IN  /\ p = <<>> => ord_out[1] = rank_str
            /\ (p # <<>> /\ p[1] >= 0) =>
                   ord_out[1] = IntToStr(p[1]) \o C6_Suffix(p[1])
            /\ C6_Examples

C6_Witness ==
    /\ rank_str = <<"1", "1", "1">>
    /\ ord_out = << <<"1", "1", "1", "t", "h">> >>

\* --------------------------------------------------- specification: wrap_text
WrapChars == {"a", "b", " "}

WrapTexts == UNION {[1..n -> WrapChars] : n \in 0..MaxWrapLen}

WrapFonts == {load_font(24, TRUE), load_font(24, FALSE)}

WrapWidths == {0, 12, 20, 45, 80}

InitWrap ==
    /\ w_text \in WrapTexts
    /\ w_font \in WrapFonts
    /\ w_max \in WrapWidths
    /\ w_out = <<>>
    /\ IdleOrdinal
    /\ IdleCompose
    /\ IdleRender
    /\ IdleMain

CallWrap ==
    /\ w_out = <<>>
    /\ w_out' = <<wrap_text(w_text, w_font, w_max)>>
    /\ UNCHANGED <<w_text, w_font, w_max, ordVars, compVars, rendVars, mainVars>>

NextWrap == CallWrap

SpecWrap == InitWrap /\ [][NextWrap]_vars

RECURSIVE Flatten(_)
Flatten(ss) == IF ss = <<>> THEN <<>> ELSE Head(ss) \o Flatten(Tail(ss))

\* C3: the words of the returned lines, in order, are the words of the input;
\* a line is wider than max_width only if it is a single word that is itself
\* wider; a text without words gives exactly one empty line.
C3_WrapText ==
    w_out # <<>> =>
        LET lines == w_out[1]
        IN  /\ Flatten([k \in 1..Len(lines) |-> split(lines[k])]) = split(w_text)
            /\ \A k \in 1..Len(lines) :
                   \/ text_width(lines[k], w_font) <= w_max
                   \/ /\ Len(split(lines[k])) = 1
                      /\ text_width(split(lines[k])[1], w_font) > w_max
            /\ split(w_text) = <<>> => lines = << <<>> >>

\* a text of three words wrapped into three lines, the last an over-wide word
C3_Witness ==
    /\ w_text = <<"a", " ", "b", " ", "a", "a">>
    /\ w_font = load_font(24, TRUE)
    /\ w_max = 20
    /\ w_out = << << <<"a">>, <<"b">>, <<"a", "a">> >> >>

\* ------------------------------------- specification: parse, then build posts
TargetDate == [year |-> 2025, month |-> 11, day |-> 29]

TargetDateStr == <<"2", "9", "/", "1", "1", "/", "2", "0", "2", "5">>

RankedCategories == {"TopTrackTrainers", "TopTrackJockeys", "HotTrainers", "HotJockeys"}

Statistic(r) ==
    [rank |-> IntToStr(r), name |-> <<"N">> \o IntToStr(r), wins |-> "5",
     runs |-> "20", strikeRate |-> "25"]

\* n Statistic elements in ascending and in descending rank order
Ascending(n)  == [i \in 1..n |-> Statistic(i)]
Descending(n) == [i \in 1..n |-> Statistic(n + 1 - i)]

\* the TopXStatistic node of a category: none, or one with some Statistic rows
NodeChoices == {<<>>, << <<>> >>} \cup {<<Ascending(n)>> : n \in 1..MaxStats}
                                  \cup {<<Descending(n)>> : n \in 2..MaxStats}

TopXOf(f) ==
    LET node(t) == IF f[t] = <<>> THEN <<>>
                   ELSE <<[statisticType |-> t, statistics |-> f[t][1]]>>
    IN  node("TopTrackTrainers") \o node("TopTrackJockeys")
        \o node("HotTrainers") \o node("HotJockeys")

DropRunner(i) == [name |-> <<"D">> \o IntToStr(i), raceTime |-> IF i = 2 THEN "" ELSE "14:30"]

DropChoices == {<<>>, << <<>> >>, <<[i \in 1..3 |-> DropRunner(i)]>>}

\* a weight attribute: absent, or a string
WeightValues == {<<>>, << <<>> >>, << <<"x">> >>, << <<"1", "2", "6">> >>,
                 << <<"1", "4", "0">> >>}

WeightChoices == {<<>>} \cup {<<[weightThen |-> a, weightNow |-> b]>> :
                                  a \in WeightValues, b \in WeightValues}

HigherMark == <<[weightThen |-> << <<"1", "4", "0">> >>, weightNow |-> << <<"1", "2", "6">> >>]>>

WonRunner(i, w) == [name |-> <<"W">> \o IntToStr(i), raceTime |-> "15:05", weight |-> w]

\* k runners: the odd ones carry the weights w, the even ones a higher mark
WonList(k, w) == [i \in 1..k |-> WonRunner(i, IF i % 2 = 1 THEN w ELSE HigherMark)]

MeetingDoc(date, course, stats) ==
    [wellformed |-> TRUE,
     meeting |-> <<[date |-> date, name |-> <<" ", "N", "b", "y">>,
                    course |-> course, stats |-> stats]>>]

Course == <<[tla |-> <<"NBU">>]>>

\* documents that vary the four ranked categories
StatDocs ==
    {MeetingDoc(<<TargetDateStr>>, Course,
                <<[topx |-> <<TopXOf([t \in RankedCategories |->
                                          IF t = cat THEN v ELSE others[t]])>>,
                   drop |-> d, won |-> w]>>) :
        cat \in RankedCategories, v \in NodeChoices,
        others \in [RankedCategories -> {<<>>, <<Ascending(2)>>}],
        d \in DropChoices, w \in {<<>>, <<WonList(1, HigherMark)>>}}

\* documents that vary the well-handicapped runners
WonDocs ==
    {MeetingDoc(<<TargetDateStr>>, Course,
                <<[topx |-> <<TopXOf([t \in RankedCategories |->
                                          IF t = "HotJockeys" THEN v ELSE <<>>])>>,
                   drop |-> <<>>, won |-> <<WonList(k, w)>>]>>) :
        v \in {<<>>, <<Ascending(1)>>}, k \in 0..MaxWon, w \in WeightChoices}

SomeStats == <<[topx |-> <<TopXOf([t \in RankedCategories |-> <<Ascending(1)>>])>>,
                drop |-> <<>>, won |-> <<>>]>>

\* documents parse_meeting_file rejects, and ones without Course or tla
OtherDocs ==
    {[wellformed |-> FALSE, meeting |-> <<>>], [wellformed |-> TRUE, meeting |-> <<>>]}
    \cup {MeetingDoc(d, Course, SomeStats) :
              d \in {<<>>, << <<>> >>, << <<"x">> >>,
                     << <<"3", "0", "/", "1", "1", "/", "2", "0", "2", "5">> >>,
                     << <<"3", "1", "/", "1", "1", "/", "2", "0", "2", "5">> >>,
                     << <<"2", "9", "/", "1", "1">> >>}}
    \cup {MeetingDoc(<<TargetDateStr>>, c, SomeStats) : c \in {<<>>, <<[tla |-> <<>>]>>}}
    \cup {MeetingDoc(<<TargetDateStr>>, Course, st) :
              st \in {<<>>, <<[topx |-> <<>>, drop |-> <<>>,
                               won |-> <<WonList(1, HigherMark)>>]>>}}

Docs == StatDocs \cup WonDocs \cup OtherDocs

InitCompose ==
    /\ c_doc \in Docs
    /\ c_pc = "start"
    /\ c_meeting = <<>>
    /\ c_posts = <<>>
    /\ IdleOrdinal
    /\ IdleWrap
    /\ IdleRender
    /\ IdleMain

\* parse_meeting_file returns (None or a record)
ParseReturns ==
    /\ c_pc = "start"
    /\ ~parse_meeting_file(c_doc, TargetDate).raised
    /\ c_meeting' = parse_meeting_file(c_doc, TargetDate).value
    /\ c_pc' = "parsed"
    /\ UNCHANGED <<c_doc, c_posts, ordVars, wrapVars, rendVars, mainVars>>

\* parse_meeting_file raises
ParseRaises ==
    /\ c_pc = "start"
    /\ parse_meeting_file(c_doc, TargetDate).raised
    /\ c_pc' = "raised"
    /\ UNCHANGED <<c_doc, c_meeting, c_posts, ordVars, wrapVars, rendVars, mainVars>>

\* build_posts_for_meeting on the record returned
BuildPosts ==
    /\ c_pc = "parsed"
    /\ c_meeting # <<>>
    /\ c_posts' = build_posts_for_meeting(c_meeting[1])
    /\ c_pc' = "built"
    /\ UNCHANGED <<c_doc, c_meeting, ordVars, wrapVars, rendVars, mainVars>>

NextCompose == ParseReturns \/ ParseRaises \/ BuildPosts

SpecCompose == InitCompose /\ [][NextCompose]_vars

\* ---- what the claims read
HeadingOf(cat) ==
    CASE cat = "TopTrackTrainers" -> "Top Track Trainers - Last 5 Years"
      [] cat = "TopTrackJockeys"  -> "Top Track Jockeys - Last 5 Years"
      [] cat = "HotTrainers"      -> "Hot Trainers (Last Month)"
      [] cat = "HotJockeys"       -> "Hot Jockeys (Last Month)"
      [] cat = "RunnerDropInClass" -> "Horses Dropping in Class"
      [] cat = "WonOffHigherHandicap" -> "Well Handicapped Horses"

AllCategories == RankedCategories \cup {"RunnerDropInClass", "WonOffHigherHandicap"}

\* the Statistic / Runner elements of a category in the document
InputRows(cat) ==
    LET stats == c_doc.meeting[1].stats[1]
        nodes == SelectSeq(stats.topx[1], LAMBDA nd : nd.statisticType = cat)
    IN  IF cat = "RunnerDropInClass" THEN (IF stats.drop = <<>> THEN <<>> ELSE stats.drop[1])
        ELSE IF cat = "WonOffHigherHandicap" THEN (IF stats.won = <<>> THEN <<>> ELSE stats.won[1])
        ELSE IF nodes = <<>> THEN <<>> ELSE nodes[1].statistics

\* the rows of a category in the parsed record
RecordRows(cat) ==
    CASE cat = "TopTrackTrainers" -> c_meeting[1].top_track_trainers
      [] cat = "TopTrackJockeys"  -> c_meeting[1].top_track_jockeys
      [] cat = "HotTrainers"      -> c_meeting[1].hot_trainers
      [] cat = "HotJockeys"       -> c_meeting[1].hot_jockeys
      [] cat = "RunnerDropInClass" -> c_meeting[1].drop_runners
      [] cat = "WonOffHigherHandicap" -> c_meeting[1].won_runners

\* the sections of all posts built, and those of a category
SectionsBuilt ==
    {c_posts[p].sections[k] : <<p, k>> \in
        {pk \in (1..Len(c_posts)) \X (1..2) : pk[2] <= Len(c_posts[pk[1]].sections)}}

SectionsOf(cat) == {sec \in SectionsBuilt : sec.heading = HeadingOf(cat)}

Min(a, b) == IF a < b THEN a ELSE b

\* C5: a ranked category with n Statistic rows gets a section of exactly
\* min(n, 5) body lines (and exactly one such section when n > 0).
C5_AtMostFive ==
    c_pc = "built" =>
        \A cat \in RankedCategories :
            LET n == Len(InputRows(cat))
            IN  /\ \A sec \in SectionsOf(cat) : Len(sec.lines) = Min(n, 5)
                /\ n > 0 => Cardinality(SectionsOf(cat)) = 1

C5_Witness ==
    /\ c_pc = "built"
    /\ Len(InputRows("TopTrackJockeys")) = 6
    /\ Len(InputRows("HotTrainers")) = 2
    /\ \E sec \in SectionsOf("TopTrackJockeys") : Len(sec.lines) = 5
    /\ \E sec \in SectionsOf("HotTrainers") : Len(sec.lines) = 2

C7_HasHigherMark(runner) ==
    /\ runner.weight # <<>>
    /\ runner.weight[1].weightThen # <<>>
    /\ runner.weight[1].weightNow # <<>>
    /\ ParseInt(runner.weight[1].weightThen[1]) # <<>>
    /\ ParseInt(runner.weight[1].weightNow[1]) # <<>>
    /\ ParseInt(runner.weight[1].weightThen[1])[1]
           > ParseInt(runner.weight[1].weightNow[1])[1]

C7_WeightClause ==
    /\ c_pc = "raised" => ~c_doc.wellformed
    /\ c_pc = "built" =>
        LET runners == InputRows("WonOffHigherHandicap")
        IN  runners # <<>> =>
                \E sec \in SectionsOf("WonOffHigherHandicap") :
                    /\ Len(sec.lines) = Min(Len(runners), 5)
                    /\ \A i \in 1..Len(sec.lines) :
                           /\ sec.lines[i].name = runners[i].name
                           /\ sec.lines[i].time = runners[i].raceTime
                           /\ IF C7_HasHigherMark(runners[i])
                              THEN /\ sec.lines[i].kind = "won_higher_mark"
                                   /\ sec.lines[i].diff = IntToStr(
                                          ParseInt(runners[i].weight[1].weightThen[1])[1]
                                          - ParseInt(runners[i].weight[1].weightNow[1])[1])
                              ELSE sec.lines[i].kind = "won"

\* runner 1 carried 126 then and carries 140 now; runner 2 is 14lb lower than then
C7_Witness ==
    /\ c_pc = "built"
    /\ Len(InputRows("WonOffHigherHandicap")) = 3
    /\ InputRows("WonOffHigherHandicap")[1].weight =
           <<[weightThen |-> << <<"1", "2", "6">> >>, weightNow |-> << <<"1", "4", "0">> >>]>>
    /\ \E sec \in SectionsOf("WonOffHigherHandicap") :
           /\ sec.lines[1].kind = "won"
           /\ sec.lines[2].kind = "won_higher_mark"
           /\ sec.lines[2].diff = <<"1", "4">>

\* C8 as claimed: the rows kept for a ranked category, and the body lines of
\* its section, are in ascending rank order whatever the order in the XML.
C8_RankOfLine(line) == ParseInt(SubSeq(line.rank, 1, Len(line.rank) - 2))[1]

C8_RanksAscending ==
    c_pc = "built" =>
        \A cat \in RankedCategories :
            /\ \A i \in 1..(Len(RecordRows(cat)) - 1) :
                   ParseInt(RecordRows(cat)[i].rank)[1]
                       <= ParseInt(RecordRows(cat)[i + 1].rank)[1]
            /\ \A sec \in SectionsOf(cat) :
                   \A i \in 1..(Len(sec.lines) - 1) :
                       C8_RankOfLine(sec.lines[i]) <= C8_RankOfLine(sec.lines[i + 1])

\* ------------------------------------------- specification: render_post_image
\* a text of k words of n characters each, single spaces between them
Words(k, n) ==
    IF k = 0 THEN <<>>
    ELSE [i \in 1..(k * (n + 1) - 1) |-> IF i % (n + 1) = 0 THEN " " ELSE "a"]

\* an empty title, a title of one line, and titles of 9, 21, ... long words,
\* one to a line
Titles ==
    {Words(k, 7) : k \in {0, 2}}
    \cup {Words(k, 24) : k \in {j \in 1..MaxTitleWords : j % 12 = 9}}

\* a heading with its body text: a heading of one line at every size over
\* empty or short texts, and a heading that wraps at size 40 over texts that
\* wrap at size 32 and not at 28
SectionTexts ==
    {[heading |-> Words(5, 6), text |-> Words(0, 0)],
     [heading |-> Words(5, 6), text |-> Words(3, 5)],
     [heading |-> Words(6, 6), text |-> Words(9, 5)]}

BodyCounts == {0, 1, 5, MaxBodyLines}

\* lists of up to two sections (a post has one or two) with the same heading
\* and body text and their own number of body lines
SectionLists ==
    UNION {{[i \in 1..k |-> [heading |-> ht.heading,
                             lines |-> [j \in 1..n[i] |-> ht.text]]] :
               n \in [1..k -> BodyCounts]} :
           <<k, ht>> \in (0..2) \X SectionTexts}

Logos == {<<>>, <<[w |-> 100, h |-> 100]>>, <<[w |-> 400, h |-> 100]>>}

InitRender ==
    /\ r_title \in Titles
    /\ r_sections \in SectionLists
    /\ r_logo \in Logos
    /\ r_fonts_ok \in BOOLEAN
    /\ r_pc = "fit"
    /\ r_cand = 1
    /\ r_best = <<>>
    /\ r_fonts = <<>>
    /\ r_y = 0
    /\ r_lines = <<>>
    /\ r_si = 0
    /\ r_li = 0
    /\ r_draws = <<>>
    /\ r_breaks = {}
    /\ IdleOrdinal
    /\ IdleWrap
    /\ IdleCompose
    /\ IdleMain

SpecRender == InitRender /\ [][NextRender]_vars

\* C1 as claimed: no draw instruction, of a title, heading or body line, has
\* its y beyond the bottom margin.
C1_NoDrawBelowMargin ==
    \A i \in 1..Len(r_draws) : r_draws[i].y <= IMG_H - MARGIN_BOTTOM

\* C4: the fonts used are those of the first candidate, largest first, whose
\* content height fits the available height, and those of the last candidate
\* (36, 28, 24) when none fits; title, heading and body sizes are of one step.
C4_AvailableHeight ==
    IMG_H - MARGIN_TOP - MARGIN_BOTTOM
    - (IF load_logo_height(r_logo) # 0 THEN load_logo_height(r_logo) + 30 ELSE 0)

C4_Fits(i) ==
    content_height_at(i) - title_top(load_logo_height(r_logo)) <= C4_AvailableHeight

C4_Size(i) == [title |-> <<56, 48, 42, 36>>[i], section |-> <<40, 36, 32, 28>>[i],
               body |-> <<32, 28, 26, 24>>[i]]

C4_FirstFit ==
    (r_pc = "title" /\ r_draws = <<>>) =>
        LET fitting == {i \in 1..4 : C4_Fits(i)}
            k == IF fitting = {} THEN 4
                 ELSE CHOOSE i \in fitting : \A j \in fitting : i <= j
        IN  /\ r_fonts.title.size = C4_Size(k).title
            /\ r_fonts.section.size = C4_Size(k).section
            /\ r_fonts.body.size = C4_Size(k).body
            /\ r_fonts.title.size \in 36..56
            /\ r_fonts.section.size \in 28..40
            /\ r_fonts.body.size \in 24..32

\* the second candidate chosen: the first does not fit, the second does
C4_Witness ==
    /\ r_pc = "title" /\ r_draws = <<>>
    /\ r_fonts_ok
    /\ ~C4_Fits(1) /\ C4_Fits(2)
    /\ r_fonts.title.size = 48 /\ r_fonts.section.size = 36 /\ r_fonts.body.size = 28

\* C9: when the measured height of the fonts used is within
\* IMG_H - MARGIN_BOTTOM, every title, heading and body line is drawn, no
\* truncation break is taken and the final y is the measured height; lines
\* are dropped only when the content does not fit at the smallest sizes.
C9_LinesOf(role) ==
    LET RECURSIVE bodies(_, _)
        bodies(lines, i) ==
            IF i > Len(lines) THEN 0
            ELSE Len(wrap_text(lines[i], r_fonts.body, max_text_width))
                 + bodies(lines, i + 1)
        RECURSIVE secs(_)
        secs(i) ==
            IF i > Len(r_sections) THEN 0
            ELSE (IF role = "heading"
                  THEN Len(wrap_text(r_sections[i].heading, r_fonts.section, max_text_width))
                  ELSE bodies(r_sections[i].lines, 1))
                 + secs(i + 1)
    IN  IF role = "title" THEN Len(wrap_text(r_title, r_fonts.title, max_text_width))
        ELSE secs(1)

C9_Drawn(role) == Cardinality({i \in 1..Len(r_draws) : r_draws[i].role = role})

C9_AllDrawn == \A role \in {"title", "heading", "body"} : C9_Drawn(role) = C9_LinesOf(role)

C9_Measured ==
    calculate_content_height(r_title, r_sections, r_fonts.title, r_fonts.section,
                             r_fonts.body, max_text_width, load_logo_height(r_logo))

C9_MeasureAgreesWithDraw ==
    r_pc = "done" =>
        /\ C9_Measured <= IMG_H - MARGIN_BOTTOM =>
               /\ C9_AllDrawn
               /\ r_breaks = {}
               /\ r_y = C9_Measured
        /\ ~C9_AllDrawn => ~fits(content_height_at(4)) /\ r_fonts.body.size = 24

\* a render that had to shrink to the third candidate and drew everything
C9_Witness ==
    /\ r_pc = "done"
    /\ r_fonts_ok
    /\ r_fonts.body.size = 26
    /\ Len(r_sections) = 2
    /\ C9_Measured <= IMG_H - MARGIN_BOTTOM
    /\ C9_AllDrawn
    /\ r_y = C9_Measured

\* a render that dropped lines
C9_Truncated == r_pc = "done" /\ ~C9_AllDrawn /\ r_breaks # {}

\* ------------------------------------------------------ specification: main
\* the file names that may be on the server
Name5NBU  == <<"5", "-", "N", "B", "U", "-", "2", "9", "1", "1", ".", "x", "m", "l">>
Name5NBX  == <<"5", "-", "N", "B", "X", "-", "2", "9", "1", "1", ".", "x", "m", "l">>
Name10NBU == <<"1", "0", "-", "N", "B", "U", "-", "2", "9", "1", "1", ".", "x", "m", "l">>
Name20KEM == <<"2", "0", "-", "K", "E", "M", "-", "2", "9", "1", "1", ".", "x", "m", "l">>
NameNBU   == <<"N", "B", "U", "-", "2", "9", "1", "1", ".", "x", "m", "l">>
Name5KEM  == <<"5", "-", "K", "E", "M", "-", "2", "9", "1", "1", ".", "X", "M", "L">>
Name5Next == <<"5", "-", "N", "B", "U", "-", "3", "0", "1", "1", ".", "x", "m", "l">>
NameNotes == <<"n", "o", "t", "e", "s", ".", "t", "x", "t">>

FileNames == {Name5NBU, Name5NBX, Name10NBU, Name20KEM, NameNBU, Name5KEM, Name5Next,
              NameNotes}

NamedDoc(name, date, tla, stats) ==
    [wellformed |-> TRUE,
     meeting |-> <<[date |-> <<date>>, name |-> name,
                    course |-> <<[tla |-> <<tla>>]>>, stats |-> <<stats>>]>>]

TrainerStats ==
    [topx |-> <<TopXOf([t \in RankedCategories |->
                           IF t = "TopTrackTrainers" THEN <<Ascending(2)>> ELSE <<>>])>>,
     drop |-> <<>>, won |-> <<>>]

FullStats ==
    [topx |-> <<TopXOf([t \in RankedCategories |-> <<Ascending(1)>>])>>,
     drop |-> <<>>, won |-> <<WonList(1, HigherMark)>>]

NextDateStr == <<"3", "0", "/", "1", "1", "/", "2", "0", "2", "5">>

\* the content of each file: the meeting name tells the files apart
FileDoc(name) ==
    CASE name = Name5NBU  -> NamedDoc(<<"A">>, TargetDateStr, <<"N", "B", "U">>, FullStats)
      [] name = Name5NBX  -> NamedDoc(<<"F">>, TargetDateStr, <<"N", "B", "U">>, TrainerStats)
      [] name = Name10NBU -> NamedDoc(<<"B">>, TargetDateStr, <<"N", "B", "U">>, TrainerStats)
      [] name = Name20KEM -> NamedDoc(<<"C">>, TargetDateStr, <<"K", "E", "M">>, TrainerStats)
      [] name = NameNBU   -> NamedDoc(<<"D">>, TargetDateStr, <<"N", "B", "U">>, TrainerStats)
      [] name = Name5KEM  -> [wellformed |-> FALSE, meeting |-> <<>>]
      [] name = Name5Next -> NamedDoc(<<"E">>, NextDateStr, <<"N", "B", "U">>, TrainerStats)
      [] OTHER            -> [wellformed |-> TRUE, meeting |-> <<>>]

\* the listings: sequences of distinct names
Listings ==
    {l \in UNION {[1..n -> FileNames] : n \in 0..MaxFiles} :
        \A i, j \in 1..Len(l) : i # j => l[i] # l[j]}

InitMain ==
    /\ m_listing \in Listings
    /\ m_failing \in {f \in SUBSET {m_listing[i] : i \in 1..Len(m_listing)} :
                          Cardinality(f) <= MaxFailing}
    /\ m_pc = "list"
    /\ m_xml_names = <<>>
    /\ m_i = 0
    /\ m_paths = <<>>
    /\ m_meetings = <<>>
    /\ m_k = 0
    /\ m_idx = 0
    /\ m_image_paths = <<>>
    /\ m_rendered = <<>>
    /\ m_sent = <<>>
    /\ IdleOrdinal
    /\ IdleWrap
    /\ IdleCompose
    /\ IdleRender

\* download_xml_files: xml_names = list_xml_files_for_date(ftp, target_date)
ListFiles ==
    /\ m_pc = "list"
    /\ m_xml_names' = list_xml_files_for_date(m_listing, TargetDate)
    /\ m_i' = 1
    /\ m_pc' = "download"
    /\ UNCHANGED <<m_rendered, m_listing, m_failing, m_paths, m_meetings, m_k, m_idx, m_image_paths,
                   m_sent>>

\* one name of the download loop: retrbinary raises and the name is skipped
DownloadFails ==
    /\ m_pc = "download"
    /\ m_i <= Len(m_xml_names)
    /\ m_xml_names[m_i] \in m_failing
    /\ m_i' = m_i + 1
    /\ UNCHANGED <<m_rendered, m_listing, m_failing, m_pc, m_xml_names, m_paths, m_meetings, m_k,
                   m_idx, m_image_paths, m_sent>>

\* one name of the download loop: the file is written and its path appended
DownloadOne ==
    /\ m_pc = "download"
    /\ m_i <= Len(m_xml_names)
    /\ m_xml_names[m_i] \notin m_failing
    /\ m_paths' = Append(m_paths, local_path(m_xml_names[m_i]))
    /\ m_i' = m_i + 1
    /\ UNCHANGED <<m_rendered, m_listing, m_failing, m_pc, m_xml_names, m_meetings, m_k, m_idx,
                   m_image_paths, m_sent>>

\* download_xml_files returns downloaded_paths
DownloadsDone ==
    /\ m_pc = "download"
    /\ m_i > Len(m_xml_names)
    /\ m_i' = 1
    /\ m_pc' = "parse"
    /\ UNCHANGED <<m_rendered, m_listing, m_failing, m_xml_names, m_paths, m_meetings, m_k, m_idx,
                   m_image_paths, m_sent>>

\* one path of the parse loop: parse_meeting_file raises, or returns None
ParseSkips ==
    /\ m_pc = "parse"
    /\ m_i <= Len(m_paths)
    /\ LET r == parse_meeting_file(FileDoc(m_paths[m_i].name), TargetDate)
       IN  r.raised \/ r.value = <<>>
    /\ m_i' = m_i + 1
    /\ UNCHANGED <<m_rendered, m_listing, m_failing, m_pc, m_xml_names, m_paths, m_meetings, m_k,
                   m_idx, m_image_paths, m_sent>>

\* one path of the parse loop: a meeting, kept if its key is new
ParseKeeps ==
    /\ m_pc = "parse"
    /\ m_i <= Len(m_paths)
    /\ LET r == parse_meeting_file(FileDoc(m_paths[m_i].name), TargetDate)
       IN  /\ ~r.raised
           /\ r.value # <<>>
           /\ m_meetings' = keep_first(m_meetings, key_of(r.value[1]), r.value[1])
    /\ m_i' = m_i + 1
    /\ UNCHANGED <<m_rendered, m_listing, m_failing, m_pc, m_xml_names, m_paths, m_k, m_idx,
                   m_image_paths, m_sent>>

\* "if not meetings": send_email([], target_date) and return
NoMeetings ==
    /\ m_pc = "parse"
    /\ m_i > Len(m_paths)
    /\ m_meetings = <<>>
    /\ m_sent' = Append(m_sent, <<>>)
    /\ m_pc' = "done"
    /\ UNCHANGED <<m_rendered, m_listing, m_failing, m_xml_names, m_i, m_paths, m_meetings, m_k,
                   m_idx, m_image_paths>>

\* the loop over meetings.items() starts
StartPosts ==
    /\ m_pc = "parse"
    /\ m_i > Len(m_paths)
    /\ m_meetings # <<>>
    /\ m_k' = 1
    /\ m_idx' = 1
    /\ m_pc' = "posts"
    /\ UNCHANGED <<m_rendered, m_listing, m_failing, m_xml_names, m_i, m_paths, m_meetings,
                   m_image_paths, m_sent>>

\* one post of the current meeting is rendered and its path appended
RenderPost ==
    /\ m_pc = "posts"
    /\ m_k <= Len(m_meetings)
    /\ m_idx <= Len(build_posts_for_meeting(m_meetings[m_k].meeting))
    /\ m_image_paths' = Append(m_image_paths,
                               out_path(m_meetings[m_k].meeting, TargetDate, m_idx))
    /\ m_rendered' = Append(m_rendered,
                             out_path(m_meetings[m_k].meeting, TargetDate, m_idx))
    /\ m_idx' = m_idx + 1
    /\ UNCHANGED <<m_listing, m_failing, m_pc, m_xml_names, m_i, m_paths, m_meetings,
                   m_k, m_sent>>

\* the posts of the current meeting are exhausted: the next meeting
NextMeeting ==
    /\ m_pc = "posts"
    /\ m_k <= Len(m_meetings)
    /\ m_idx > Len(build_posts_for_meeting(m_meetings[m_k].meeting))
    /\ m_k' = m_k + 1
    /\ m_idx' = 1
    /\ UNCHANGED <<m_rendered, m_listing, m_failing, m_pc, m_xml_names, m_i, m_paths, m_meetings,
                   m_image_paths, m_sent>>

\* ftp_connect raises (no credentials, or the server refuses): main ends
ConnectRaises ==
    /\ m_pc = "list"
    /\ m_pc' = "raised"
    /\ UNCHANGED <<m_listing, m_failing, m_xml_names, m_i, m_paths, m_meetings, m_k,
                   m_idx, m_image_paths, m_rendered, m_sent>>

\* send_email is called and raises (no credentials, or SMTP fails): main ends
SendEmailRaises ==
    /\ m_pc \in {"parse", "posts"}
    /\ IF m_pc = "parse" THEN m_i > Len(m_paths) /\ m_meetings = <<>>
                         ELSE m_k > Len(m_meetings)
    /\ m_sent' = Append(m_sent, m_image_paths)
    /\ m_pc' = "raised"
    /\ UNCHANGED <<m_listing, m_failing, m_xml_names, m_i, m_paths, m_meetings, m_k,
                   m_idx, m_image_paths, m_rendered>>

\* send_email(image_paths, target_date)
SendEmail ==
    /\ m_pc = "posts"
    /\ m_k > Len(m_meetings)
    /\ m_sent' = Append(m_sent, m_image_paths)
    /\ m_pc' = "done"
    /\ UNCHANGED <<m_rendered, m_listing, m_failing, m_xml_names, m_i, m_paths, m_meetings, m_k,
                   m_idx, m_image_paths>>

Next ==
    /\ \/ ListFiles \/ DownloadFails \/ DownloadOne \/ DownloadsDone
       \/ ParseSkips \/ ParseKeeps \/ NoMeetings \/ StartPosts
       \/ RenderPost \/ NextMeeting \/ SendEmail
       \/ ConnectRaises \/ SendEmailRaises
    /\ UNCHANGED <<ordVars, wrapVars, compVars, rendVars>>

Init == InitMain

Spec == Init /\ [][Next]_vars

\* C10: at the end of main (the meetings are not touched after the parse
\* loop), the meetings kept are, key by key, the
\* meeting of the first name, in the order 5- then 10- then 20- then the rest
\* (listing order within a prefix), whose file was downloaded and parsed to a
\* meeting of the target date with that key; no key is kept twice, and no
\* failing download or parse hides a later file.
C10_Rank(name) ==
    CASE SubSeq(name, 1, 2) = <<"5", "-">> -> 0
      [] SubSeq(name, 1, 3) = <<"1", "0", "-">> -> 1
      [] SubSeq(name, 1, 3) = <<"2", "0", "-">> -> 2
      [] OTHER -> 3

C10_Pos(name) == CHOOSE i \in 1..Len(m_listing) : m_listing[i] = name

\* name a comes before name b in the order claimed
C10_Before(a, b) ==
    \/ C10_Rank(a) < C10_Rank(b)
    \/ C10_Rank(a) = C10_Rank(b) /\ C10_Pos(a) < C10_Pos(b)

\* the names returned whose file was downloaded and parsed to a meeting
C10_Good ==
    {n \in {m_xml_names[i] : i \in 1..Len(m_xml_names)} :
        /\ n \notin m_failing
        /\ ~parse_meeting_file(FileDoc(n), TargetDate).raised
        /\ parse_meeting_file(FileDoc(n), TargetDate).value # <<>>}

C10_Meeting(n) == parse_meeting_file(FileDoc(n), TargetDate).value[1]

C10_FirstPerKey ==
    /\ (m_pc = "download" /\ m_i = 1) =>
           \A i, j \in 1..Len(m_xml_names) :
               i < j => C10_Before(m_xml_names[i], m_xml_names[j])
    /\ m_pc = "done" =>
           /\ \A i, j \in 1..Len(m_meetings) :
                  i # j => m_meetings[i].key # m_meetings[j].key
           /\ \A i \in 1..Len(m_meetings) :
                  \E n \in C10_Good :
                      /\ key_of(C10_Meeting(n)) = m_meetings[i].key
                      /\ m_meetings[i].meeting = C10_Meeting(n)
                      /\ m_meetings[i].meeting.date = TargetDate
                      /\ \A o \in C10_Good :
                             key_of(C10_Meeting(o)) = m_meetings[i].key /\ o # n
                                 => C10_Before(n, o)
           /\ \A n \in C10_Good :
                  \E i \in 1..Len(m_meetings) : m_meetings[i].key = key_of(C10_Meeting(n))

\* listed as 10-NBU, 5-KEM (malformed), 5-NBU: the 5-NBU meeting "A" is kept
\* although the 10- file was listed first and a file between them failed to parse
C10_Witness ==
    /\ m_pc = "done"
    /\ m_listing = <<Name10NBU, Name5KEM, Name5NBU>>
    /\ m_failing = {}
    /\ Len(m_meetings) = 1
    /\ m_meetings[1].meeting.meeting_name = <<"A">>

\* C11: in a run of main in which nothing raises, send_email is called exactly
\* once, after the last render_post_image has returned; its attachments are
\* the paths rendered, in render order, one per post of each meeting kept and
\* no two equal; and they are empty exactly when no meeting was kept.
RECURSIVE C11_PostCount(_)
C11_PostCount(k) ==
    IF k = 0 THEN 0
    ELSE C11_PostCount(k - 1) + Len(build_posts_for_meeting(m_meetings[k].meeting))

C11_EmailAfterRenders ==
    /\ Len(m_sent) <= 1
    /\ m_sent # <<>> => m_pc \in {"done", "raised"} /\ m_sent[1] = m_rendered
    /\ m_pc = "done" =>
           /\ Len(m_sent) = 1
           /\ m_sent[1] = m_rendered
           /\ Len(m_rendered) = C11_PostCount(Len(m_meetings))
           /\ \A i, j \in 1..Len(m_sent[1]) : i # j => m_sent[1][i] # m_sent[1][j]
           /\ m_sent[1] = <<>> <=> m_meetings = <<>>
           /\ m_meetings = <<>> <=> C10_Good = {}

\* two meetings kept, the first with three posts: four attachments
C11_Witness ==
    /\ m_pc = "done"
    /\ Len(m_meetings) = 2
    /\ m_meetings[1].meeting.meeting_name = <<"A">>
    /\ Len(m_sent) = 1
    /\ Len(m_sent[1]) = 4
    /\ m_sent[1] = m_rendered

\* no meeting kept: one email without attachments
C11_WitnessEmpty == m_pc = "done" /\ m_listing # <<>> /\ m_meetings = <<>> /\ m_sent = << <<>> >>

====
